---- MODULE Spec2Model ----
(***************************************************************************)
(* Model of streamlit_dashboard.py: load_data and prepare_data (the        *)
(* Cleaner and the Album Consolidator).                                    *)
(*                                                                         *)
(* A string is a sequence of one-character strings, so that split, strip   *)
(* and str() are computed character by character.  A cell of a DataFrame   *)
(* is a record [k, s, m, e]: k is the kind of value the cell holds         *)
(* ("str", "int64", "float64", "Int64", or the missing markers "nan" and   *)
(* "NA"), s the characters of a string, and (m, e) the number m / 10^e.    *)
(* A DataFrame is [n |-> number of rows, data |-> column name -> cells].   *)
(***************************************************************************)
EXTENDS Integers, Sequences, FiniteSets, TLC

VARIABLES csv, df_in, df, sub_content_counts, title_mapping, last_op

vars == <<csv, df_in, df, sub_content_counts, title_mapping, last_op>>

\* Bound of the model: the number of data rows of the CSV file.
MaxRows == 3

----------------------------------------------------------------------------
(* Generic helpers *)

Range(f) == {f[i] : i \in DOMAIN f}

Front(q) == SubSeq(q, 1, Len(q) - 1)

Last(q) == q[Len(q)]

EmptyFn == [x \in {} |-> 0]

RECURSIVE Pow10(_)
Pow10(e) == IF e = 0 THEN 1 ELSE 10 * Pow10(e - 1)

----------------------------------------------------------------------------
(* Characters and Python string methods *)

\* str.strip() with no argument and the regex class \s
Whitespace == {" ", "\t", "\n", "\r"}

DigitChars == <<"0", "1", "2", "3", "4", "5", "6", "7", "8", "9">>

IsDigit(c) == \E d \in DOMAIN DigitChars : DigitChars[d] = c

DigitVal(c) == (CHOOSE d \in DOMAIN DigitChars : DigitChars[d] = c) - 1

\* title.split('|')
RECURSIVE Split(_)
Split(s) ==
    IF \A i \in DOMAIN s : s[i] # "|"
    THEN <<s>>
    ELSE LET i == CHOOSE k \in DOMAIN s :
                      s[k] = "|" /\ \A j \in 1..(k - 1) : s[j] # "|"
         IN  <<SubSeq(s, 1, i - 1)>> \o Split(SubSeq(s, i + 1, Len(s)))

RECURSIVE LStrip(_)
LStrip(s) ==
    IF s # <<>> /\ s[1] \in Whitespace THEN LStrip(Tail(s)) ELSE s

RECURSIVE RStrip(_)
RStrip(s) ==
    IF s # <<>> /\ Last(s) \in Whitespace THEN RStrip(Front(s)) ELSE s

\* Faulty variant of Strip: only the leading whitespace is removed (lstrip).
StripLeftOnly(s) == LStrip(s)

\* part.strip()
Strip(s) == RStrip(LStrip(s))

\* Faulty variant of MatchesBlank: the pattern ^$ matches the empty string only.
MatchesEmptyOnly(s) == s = <<>>

\* the regular expression ^\s*$ of df.replace
MatchesBlank(s) == \A i \in DOMAIN s : s[i] \in Whitespace

\* str(n) of a non-negative integer
RECURSIVE IntToStr(_)
IntToStr(n) ==
    IF n < 10 THEN <<DigitChars[n + 1]>>
    ELSE IntToStr(n \div 10) \o <<DigitChars[(n % 10) + 1]>>

\* the w low decimal digits of n, zero padded
RECURSIVE PadDigits(_, _)
PadDigits(n, w) ==
    IF w = 0 THEN <<>>
    ELSE PadDigits(n \div 10, w - 1) \o <<DigitChars[(n % 10) + 1]>>

RECURSIVE DigitsVal(_)
DigitsVal(s) ==
    IF s = <<>> THEN 0 ELSE 10 * DigitsVal(Front(s)) + DigitVal(Last(s))

----------------------------------------------------------------------------
(* Cells *)

NaN == [k |-> "nan", s |-> <<>>, m |-> 0, e |-> 0]

NA == [k |-> "NA", s |-> <<>>, m |-> 0, e |-> 0]

StrCell(t) == [k |-> "str", s |-> t, m |-> 0, e |-> 0]

NumCell(kind, mm, ee) == [k |-> kind, s |-> <<>>, m |-> mm, e |-> ee]

IsMissing(x) == x.k \in {"nan", "NA"}

\* m / 10^e with the trailing zeros of the fraction removed
RECURSIVE Normalize(_)
Normalize(v) ==
    IF v.e > 0 /\ v.m % 10 = 0
    THEN Normalize([ok |-> v.ok, m |-> v.m \div 10, e |-> v.e - 1])
    ELSE v

\* The number a text denotes: digits, with at most one decimal point.
ParseNum(s) ==
    LET dots == {i \in DOMAIN s : s[i] = "."}
        digs == SelectSeq(s, IsDigit)
    IN  IF /\ Cardinality(dots) <= 1
           /\ digs # <<>>
           /\ \A i \in DOMAIN s : IsDigit(s[i]) \/ s[i] = "."
        THEN Normalize([ok |-> TRUE, m |-> DigitsVal(digs),
                        e |-> IF dots = {} THEN 0
                              ELSE Len(s) - (CHOOSE i \in dots : TRUE)])
        ELSE [ok |-> FALSE, m |-> 0, e |-> 0]

\* str(x) of a cell value, as astype(str) applies it
StrOf(x) ==
    CASE x.k = "str" -> x.s
      [] x.k \in {"int64", "Int64"} -> IntToStr(x.m)
      [] x.k = "float64" ->
            IntToStr(x.m \div Pow10(x.e)) \o <<".">> \o
            (IF x.e = 0 THEN <<"0">> ELSE PadDigits(x.m % Pow10(x.e), x.e))
      [] x.k = "nan" -> <<"n", "a", "n">>
      [] OTHER -> <<"<", "N", "A", ">">>

----------------------------------------------------------------------------
(* DataFrames *)

EmptyFrame == [n |-> 0, data |-> EmptyFn]

Columns(d) == DOMAIN d.data

IsEmpty(d) == d.n = 0 \/ Columns(d) = {}

COUNT_COLS == {"viewCount", "likeCount", "commentCount", "popularity"}

KEY_COLS == {"combined_key", "album_title"}

\* __contains__ of a Python dict whose keys are all str: a str key is found by
\* its characters, a number is equal to no str
HasKey(mapping, x) == x.k = "str" /\ x.s \in DOMAIN mapping

----------------------------------------------------------------------------
(* load_data: pd.read_csv over the fields of the file *)

IsIntText(s) == s # <<>> /\ \A i \in DOMAIN s : IsDigit(s[i])

\* The cells read_csv infers for the fields of one column: an empty field is
\* missing; a column whose fields are all numbers is int64, or float64 when a
\* field is missing or has a fraction; any other column holds the texts.
ReadColumn(fields) ==
    LET present == {i \in DOMAIN fields : fields[i] # <<>>}
    IN  IF \A i \in present : ParseNum(fields[i]).ok
        THEN IF present = DOMAIN fields /\ \A i \in present : IsIntText(fields[i])
             THEN [i \in DOMAIN fields |->
                      NumCell("int64", DigitsVal(fields[i]), 0)]
             ELSE [i \in DOMAIN fields |->
                      IF i \in present
                      THEN NumCell("float64", ParseNum(fields[i]).m,
                                   ParseNum(fields[i]).e)
                      ELSE NaN]
        ELSE [i \in DOMAIN fields |->
                 IF i \in present THEN StrCell(fields[i]) ELSE NaN]

load_data(file) ==
    IF ~file.exists
    THEN EmptyFrame
    ELSE [n |-> file.n,
          data |-> [c \in DOMAIN file.data |-> ReadColumn(file.data[c])]]

----------------------------------------------------------------------------
(* prepare_data, the Cleaner: lines 33-44 *)

\* Series.replace(r'^\s*$', np.nan, regex=True): only strings are matched
ReplaceBlank(col) ==
    [i \in DOMAIN col |->
        IF col[i].k = "str" /\ MatchesBlank(col[i].s) THEN NaN ELSE col[i]]

\* pd.to_numeric(errors='coerce') of one value, first as a float64
ToNumericCell(x) ==
    CASE x.k = "str" ->
            IF ParseNum(x.s).ok
            THEN NumCell("float64", ParseNum(x.s).m, ParseNum(x.s).e)
            ELSE NaN
      [] x.k = "int64" -> NumCell("float64", x.m, 0)
      [] OTHER -> x

\* pd.to_numeric(col, errors='coerce'): a nullable column is kept; the result
\* is int64 when every value is present and integral, else float64
ToNumeric(col) ==
    LET parsed == [i \in DOMAIN col |-> ToNumericCell(col[i])]
    IN  IF \E i \in DOMAIN col : col[i].k \in {"Int64", "NA"}
        THEN col
        ELSE IF \A i \in DOMAIN col : parsed[i].k = "float64" /\ parsed[i].e = 0
             THEN [i \in DOMAIN col |-> NumCell("int64", parsed[i].m, 0)]
             ELSE parsed

\* Faulty variant of AsTypeInt64: a cast that truncates the fractions instead of raising.
AsTypeInt64Truncating(col) ==
    [i \in DOMAIN col |->
        IF col[i].k \in {"int64", "float64", "Int64"}
        THEN NumCell("Int64", col[i].m \div Pow10(col[i].e), 0)
        ELSE NA]

\* col.astype('Int64', errors='ignore'): the cast raises on a value with a
\* fraction, and the error is ignored, which leaves the column as it was
AsTypeInt64(col) ==
    IF \A i \in DOMAIN col : col[i].k = "float64" => col[i].e = 0
    THEN [i \in DOMAIN col |->
             IF col[i].k \in {"int64", "float64", "Int64"}
             THEN NumCell("Int64", col[i].m, 0)
             ELSE NA]
    ELSE col

Cleaner(d) ==
    LET d1 == [c \in Columns(d) |-> ReplaceBlank(d.data[c])]
        d2 == [c \in Columns(d) |->
                  IF c \in KEY_COLS THEN ReplaceBlank(d1[c]) ELSE d1[c]]
        d3 == [c \in Columns(d) |->
                  IF c \in COUNT_COLS THEN AsTypeInt64(ToNumeric(d2[c]))
                  ELSE d2[c]]
    IN  [n |-> d.n, data |-> d3]

----------------------------------------------------------------------------
(* prepare_data, the album consolidation: lines 47-72 *)

\* df['album_title'].dropna().astype(str)
NonNullStr(col) ==
    LET kept == SelectSeq(col, LAMBDA x : ~IsMissing(x))
    IN  [i \in DOMAIN kept |-> StrOf(kept[i])]

\* Series.unique(): the distinct values in order of first appearance
RECURSIVE Unique(_)
Unique(q) ==
    IF q = <<>> THEN <<>>
    ELSE LET h == Unique(Front(q))
         IN  IF Last(q) \in Range(h) THEN h ELSE Append(h, Last(q))

\* Faulty variant of DistinctTitles: every row's title, without unique().
EveryRowTitle(col) == NonNullStr(col)

\* non_null_albums.unique(), the titles both loops run over
DistinctTitles(col) == Unique(NonNullStr(col))

\* [part.strip() for part in title.split('|')]
Parts(title) ==
    LET pieces == Split(title)
    IN  [i \in DOMAIN pieces |-> Strip(pieces[i])]

\* Faulty variant of ValidParts: the empty parts are kept.
ValidPartsUnfiltered(title) == Parts(title)

\* [part for part in parts if part]
ValidParts(title) == SelectSeq(Parts(title), LAMBDA p : p # <<>>)

\* the list all_sub_contents after the loop over the distinct titles
RECURSIVE AllSubContents(_)
AllSubContents(titles) ==
    IF titles = <<>> THEN <<>>
    ELSE AllSubContents(Front(titles)) \o ValidParts(Last(titles))

\* Counter(all_sub_contents)
Counter(q) ==
    [x \in Range(q) |-> Cardinality({i \in DOMAIN q : q[i] = x})]

\* Faulty variant of MaxByCount: the first sub-title, whatever its count.
FirstPart(valid, counts) == valid[1]

\* Faulty variant of MaxByCount: the last element whose key is maximal.
LastOfTheHighest(valid, counts) ==
    valid[CHOOSE i \in DOMAIN valid :
              /\ \A j \in DOMAIN valid : counts[valid[j]] <= counts[valid[i]]
              /\ \A j \in (i + 1)..Len(valid) : counts[valid[j]] < counts[valid[i]]]

\* max(valid_sub_contents, key=lambda x: sub_content_counts[x]): the first
\* element whose key is maximal
MaxByCount(valid, counts) ==
    valid[CHOOSE i \in DOMAIN valid :
              /\ \A j \in DOMAIN valid : counts[valid[j]] <= counts[valid[i]]
              /\ \A j \in 1..(i - 1) : counts[valid[j]] < counts[valid[i]]]

ConsolidatedTitle(original_title, counts) ==
    IF ValidParts(original_title) # <<>>
    THEN MaxByCount(ValidParts(original_title), counts)
    ELSE original_title

\* Faulty variant of MapSource: the derived column is mapped once it exists.
MapSourceDerived(d) ==
    IF "consolidated_album_title" \in Columns(d)
    THEN "consolidated_album_title" ELSE "album_title"

\* the column line 72 maps
MapSource(d) == "album_title"

\* Series.map(title_mapping): a value that is no key of the dict is missing
MapCell(x, mapping) ==
    IF ~IsMissing(x) /\ HasKey(mapping, x) THEN StrCell(mapping[x.s]) ELSE NaN

Consolidate(d) ==
    IF "album_title" \notin Columns(d)
    THEN [out |-> d, counts |-> EmptyFn, mapping |-> EmptyFn]
    ELSE LET titles == DistinctTitles(d.data["album_title"])
             counts == Counter(AllSubContents(titles))
             mapping == [t \in Range(titles) |-> ConsolidatedTitle(t, counts)]
             src == d.data[MapSource(d)]
             mapped == [i \in DOMAIN src |-> MapCell(src[i], mapping)]
         IN  [out |-> [n |-> d.n,
                       data |-> [c \in Columns(d) \cup {"consolidated_album_title"} |->
                                    IF c = "consolidated_album_title"
                                    THEN mapped ELSE d.data[c]]],
              counts |-> counts,
              mapping |-> mapping]

prepare_data(d) ==
    IF IsEmpty(d)
    THEN [out |-> d, counts |-> EmptyFn, mapping |-> EmptyFn]
    ELSE Consolidate(Cleaner(d))

----------------------------------------------------------------------------
(* The fields a row of the data file may hold, per column *)

AlbumFields ==
    { <<>>, <<" ">>, <<"B">>, <<" ", "A", " ">>, <<"1">>,
      <<"A", "|", "B">>, <<"B", "|", "C">>, <<"A", "|", "A">>,
      <<"A", "|", " ", "B">>, <<"B", "|", "A", "|", "A">>, <<"|">> }

CountFields ==
    { <<>>, <<" ">>, <<"4", "2">>, <<"1", ".", "5">>,
      <<"1", ",", "2", "3", "4">> }

KeyFields == { <<>>, <<" ">>, <<"C", "m">> }

FieldPool(c) ==
    IF c = "album_title" THEN AlbumFields
    ELSE IF c \in COUNT_COLS THEN CountFields
    ELSE KeyFields

FileColumns == KEY_COLS \cup COUNT_COLS

----------------------------------------------------------------------------
(* The application: every run of main() loads the file and prepares it *)

\* main(), lines 282-284: df = load_data(FILE_NAME); df = prepare_data(df)
RunMain(file) ==
    \E d \in {load_data(file)} :
       \E r \in {prepare_data(d)} :
          /\ df_in' = d
          /\ df' = r.out
          /\ sub_content_counts' = r.counts
          /\ title_mapping' = r.mapping

Init ==
    /\ csv = [exists |-> FALSE, n |-> 0, data |-> EmptyFn]
    /\ df_in = EmptyFrame
    /\ df = EmptyFrame
    /\ sub_content_counts = EmptyFn
    /\ title_mapping = EmptyFn
    /\ last_op = "init"

\* The data file appears, with a header naming one column and no row.
CreateFile ==
    /\ ~csv.exists
    /\ \E c \in FileColumns :
          /\ csv' = [exists |-> TRUE, n |-> 0, data |-> [x \in {c} |-> <<>>]]
          /\ RunMain(csv')
    /\ last_op' = "create"

\* A row is added to the file, and the application runs.
AppendRow ==
    /\ csv.exists
    /\ csv.n < MaxRows
    /\ \E row \in [DOMAIN csv.data -> AlbumFields \cup CountFields \cup KeyFields] :
          /\ \A c \in DOMAIN csv.data : row[c] \in FieldPool(c)
          /\ csv' = [csv EXCEPT !.n = @ + 1,
                                !.data = [c \in DOMAIN @ |-> Append(@[c], row[c])]]
          /\ RunMain(csv')
    /\ last_op' = "append"

\* A copy of a row whose fields are all present is added to the file, and the
\* application runs.
DuplicateRow ==
    /\ csv.exists
    /\ csv.n < MaxRows
    /\ \E i \in 1..csv.n :
          /\ \A c \in DOMAIN csv.data : csv.data[c][i] # <<>>
          /\ csv' = [csv EXCEPT !.n = @ + 1,
                                !.data = [c \in DOMAIN @ |-> Append(@[c], @[c][i])]]
          /\ RunMain(csv')
    /\ last_op' = "duplicate"

\* Two neighbouring rows of the file change places, and the application runs.
SwapRows ==
    /\ csv.exists
    /\ \E i \in 1..(csv.n - 1) :
          /\ \E c \in DOMAIN csv.data : csv.data[c][i] # csv.data[c][i + 1]
          /\ csv' = [csv EXCEPT !.data =
                        [c \in DOMAIN @ |->
                            [j \in DOMAIN @[c] |->
                                IF j = i THEN @[c][i + 1]
                                ELSE IF j = i + 1 THEN @[c][i]
                                ELSE @[c][j]]]]
          /\ RunMain(csv')
    /\ last_op' = "swap"

\* prepare_data is called on the DataFrame it returned.
Rerun ==
    /\ last_op # "rerun"
    /\ \E r \in {prepare_data(df)} :
          /\ df_in' = df
          /\ df' = r.out
          /\ sub_content_counts' = r.counts
          /\ title_mapping' = r.mapping
    /\ csv' = csv
    /\ last_op' = "rerun"

Next == CreateFile \/ AppendRow \/ DuplicateRow \/ SwapRows \/ Rerun

Spec == Init /\ [][Next]_vars

----------------------------------------------------------------------------
(* What the properties speak of, stated without the operators of the code *)

PipesOf(t) == {i \in DOMAIN t : t[i] = "|"}

\* the position of the k-th pipe of t; 0 and Len(t) + 1 fence the title
NthPipe(t, k) ==
    IF k = 0 THEN 0
    ELSE IF k > Cardinality(PipesOf(t)) THEN Len(t) + 1
    ELSE CHOOSE i \in PipesOf(t) : Cardinality({j \in PipesOf(t) : j <= i}) = k

\* the pieces between the pipes of t, in order
PiecesOf(t) ==
    [k \in 1..(Cardinality(PipesOf(t)) + 1) |->
        SubSeq(t, NthPipe(t, k - 1) + 1, NthPipe(t, k) - 1)]

\* s from its first to its last character that is not whitespace
TrimOf(s) ==
    LET keep == {i \in DOMAIN s : s[i] \notin Whitespace}
    IN  IF keep = {} THEN <<>>
        ELSE SubSeq(s, CHOOSE i \in keep : \A j \in keep : i <= j,
                       CHOOSE i \in keep : \A j \in keep : j <= i)

\* the sub-titles of t: its trimmed, non-empty pieces, in order
SubTitlesOf(t) ==
    SelectSeq([k \in DOMAIN PiecesOf(t) |-> TrimOf(PiecesOf(t)[k])],
              LAMBDA p : p # <<>>)

\* prepare_data ran the consolidation
Consolidated == "consolidated_album_title" \in Columns(df)

\* the distinct non-missing album titles of the cleaned table, as strings
TitlesOf(d) ==
    {StrOf(d.data["album_title"][i]) :
        i \in {j \in 1..d.n : ~IsMissing(d.data["album_title"][j])}}

RECURSIVE SumOver(_, _)
SumOver(S, f) ==
    IF S = {} THEN 0
    ELSE LET x == CHOOSE y \in S : TRUE
         IN  f[x] + SumOver(S \ {x}, f)

tAB == <<"A", "|", "B">>

tBC == <<"B", "|", "C">>

tPipe == <<"|">>

tPadA == <<" ", "A", " ">>

----------------------------------------------------------------------------
(* Properties *)

C2_CountIsNumberOfTitles ==
    Consolidated =>
        /\ DOMAIN sub_content_counts =
              UNION {Range(SubTitlesOf(t)) : t \in TitlesOf(df)}
        /\ \A u \in DOMAIN sub_content_counts :
              sub_content_counts[u] =
                 Cardinality({t \in TitlesOf(df) : u \in Range(SubTitlesOf(t))})

\* C3: a run over the file with a copy of a present row added leaves the
\* frequency table and the title mapping as the run before it left them.
C3_DuplicateRowsChangeNothing ==
    [][last_op' = "duplicate" =>
          /\ sub_content_counts' = sub_content_counts
          /\ title_mapping' = title_mapping]_vars

\* C3 witness: a copy of a row was added to a table in which "A|B" is mapped
\* to "B".
C3_Witness ==
    /\ last_op = "duplicate"
    /\ Consolidated
    /\ tAB \in DOMAIN title_mapping
    /\ title_mapping[tAB] = <<"B">>
    /\ sub_content_counts[<<"B">>] = 2

\* C4: every non-missing album_title value has an entry in the title mapping,
\* and every row with a non-missing album_title holds, as its
\* consolidated_album_title, the non-missing canonical title of that value.
C4_EveryTitledRowIsMapped ==
    Consolidated =>
        \A i \in 1..df.n :
           ~IsMissing(df.data["album_title"][i]) =>
              /\ StrOf(df.data["album_title"][i]) \in DOMAIN title_mapping
              /\ ~IsMissing(df.data["consolidated_album_title"][i])
              /\ df.data["consolidated_album_title"][i] =
                    StrCell(title_mapping[StrOf(df.data["album_title"][i])])

\* C5 as claimed: every non-missing album title without a pipe is mapped to
\* itself.
C5_NoPipeMapsToItself ==
    Consolidated =>
        \A t \in TitlesOf(df) :
           PipesOf(t) = {} => t \in DOMAIN title_mapping /\ title_mapping[t] = t

\* C5 as amended: every non-missing album title without a pipe is mapped to
\* the title with its surrounding whitespace trimmed.
C5_NoPipeMapsToTrimmed ==
    Consolidated =>
        \A t \in TitlesOf(df) :
           PipesOf(t) = {} =>
              t \in DOMAIN title_mapping /\ title_mapping[t] = TrimOf(t)

\* C5 witness: the title " A ", which has no pipe, is mapped to "A".
C5_Witness ==
    /\ Consolidated
    /\ tPadA \in TitlesOf(df)
    /\ title_mapping[tPadA] = <<"A">>

\* the tie-break of C6, in one state
FirstOfTheHighest ==
    Consolidated =>
        \A t \in TitlesOf(df) :
           SubTitlesOf(t) # <<>> =>
              \E i \in DOMAIN SubTitlesOf(t) :
                 /\ title_mapping[t] = SubTitlesOf(t)[i]
                 /\ \A j \in DOMAIN SubTitlesOf(t) :
                       sub_content_counts[SubTitlesOf(t)[j]] <=
                          sub_content_counts[SubTitlesOf(t)[i]]
                 /\ \A j \in 1..(i - 1) :
                       sub_content_counts[SubTitlesOf(t)[j]] <
                          sub_content_counts[SubTitlesOf(t)[i]]

C7_NoSubTitleFallsBack ==
    Consolidated =>
        /\ \A t \in TitlesOf(df) :
              SubTitlesOf(t) = <<>> =>
                 /\ t \in DOMAIN title_mapping
                 /\ title_mapping[t] = t
                 /\ t \notin DOMAIN sub_content_counts
        /\ DOMAIN sub_content_counts =
              UNION {Range(SubTitlesOf(t)) : t \in TitlesOf(df)}
        /\ SumOver(DOMAIN sub_content_counts, sub_content_counts) =
              SumOver(TitlesOf(df), [t \in TitlesOf(df) |-> Len(SubTitlesOf(t))])

\* C7 witness: "|" is a title of the table beside "A|B", and is mapped to
\* itself.
C7_Witness ==
    /\ Consolidated
    /\ {tPipe, tAB} \subseteq TitlesOf(df)
    /\ title_mapping[tPipe] = tPipe
    /\ DOMAIN sub_content_counts = {<<"A">>, <<"B">>}

\* the rows of the file whose album_title field is empty or whitespace
BlankAlbumRows ==
    IF csv.exists /\ "album_title" \in DOMAIN csv.data
    THEN {i \in 1..csv.n :
             \A j \in DOMAIN csv.data["album_title"][i] :
                csv.data["album_title"][i][j] \in Whitespace}
    ELSE {}

\* C8: every row whose album_title is missing, empty or whitespace-only has a
\* missing album_title and a missing consolidated_album_title after
\* prepare_data.
C8_MissingTitleStaysMissing ==
    \A i \in BlankAlbumRows :
       /\ Consolidated
       /\ IsMissing(df.data["album_title"][i])
       /\ IsMissing(df.data["consolidated_album_title"][i])

\* C8 witness: the file holds a whitespace-only title, an empty one and
\* "A|B"; the first two rows have no consolidated title, the third has "A".
C8_Witness ==
    /\ csv.exists
    /\ "album_title" \in DOMAIN csv.data
    /\ csv.data["album_title"] = << <<" ">>, <<>>, tAB >>
    /\ IsMissing(df.data["consolidated_album_title"][1])
    /\ IsMissing(df.data["consolidated_album_title"][2])
    /\ df.data["consolidated_album_title"][3] = StrCell(<<"A">>)

\* the count columns of the file, when it has a row
FileCountCols ==
    IF csv.exists /\ csv.n > 0 THEN DOMAIN csv.data \cap COUNT_COLS ELSE {}

C10_Idempotent ==
    /\ last_op = "rerun" => df = df_in
    /\ Cleaner(Cleaner(df_in)) = Cleaner(df_in)

\* C10 witness: prepare_data ran over its own output, a table in which the
\* title " A " has the consolidated title "A".
C10_Witness ==
    /\ last_op = "rerun"
    /\ Consolidated
    /\ df_in.n = 2
    /\ df_in.data["album_title"][1] = StrCell(tPadA)
    /\ df_in.data["consolidated_album_title"][1] = StrCell(<<"A">>)
    /\ df.data["consolidated_album_title"][2] = StrCell(<<"B">>)

====
